---- MODULE Spec2Model ----
(***************************************************************************)
(* Model of csrc/vtp_core.cpp: the GIL-releasing wrapper fast_p2p_transfer *)
(* and the cache scorer compute_hotness_scores.                            *)
(*                                                                         *)
(* IEEE-754 doubles are modelled by records [k, c, n, d]:                  *)
(*   k = "nan"                 NaN                                         *)
(*   k = "inf",  c = +1 / -1   +infinity / -infinity                       *)
(*   k = "num"                 the double nearest to c * 2^(n/d), d > 0,   *)
(*                             n/d in lowest terms; n = 0 means the value  *)
(*                             is the integer c exactly (c = 0: +0.0)      *)
(*   k = "negzero"             -0.0                                        *)
(*   k = "huge", c = +1 / -1   a finite double of the largest magnitudes,  *)
(*                             c * 1.7e308: huge - (-huge) overflows to    *)
(*                             infinity, and huge +/- a small number is    *)
(*                             huge                                        *)
(*   k = "tiny"                a positive double so small that M_LN2 / x   *)
(*                             overflows (x < 3.9e-309, e.g. 5e-324)       *)
(*   k = "ln2"                 the double nearest to ln(2) * n / d         *)
(*   k = "str"                 a Python object that cast<double> rejects   *)
(* The sign of a zero is kept through every operation: M_LN2 / half_life   *)
(* reads it (M_LN2 / -0.0 is -infinity).                                   *)
(***************************************************************************)
EXTENDS Integers, FiniteSets, Sequences, TLC

VARIABLES
    access_counts,      \* argument access_counts: key -> count
    last_access_times,  \* argument last_access_times: key -> timestamp
    current_time,       \* argument current_time
    half_life,          \* argument half_life
    result,             \* what the latest call of compute_hotness_scores gave
    prev,               \* the call before it: its current_time and what it gave
    pc,                 \* per thread: where it is in fast_p2p_transfer
    args,               \* per thread: the arguments src and dst_device of its call
    holds_gil,          \* per thread: whether it holds the GIL
    attempts,           \* per thread: device copies started in the current call
    copy_result,        \* per thread: what fast_p2p_transfer_cuda gave
    delivered,          \* per thread: what its caller received from the last call
    calls               \* per thread: calls of fast_p2p_transfer made so far

scorer_vars == <<access_counts, last_access_times, current_time, half_life,
                 result, prev>>
transfer_vars == <<pc, args, holds_gil, attempts, copy_result, delivered, calls>>
vars == <<access_counts, last_access_times, current_time, half_life, result,
          prev, pc, args, holds_gil, attempts, copy_result, delivered, calls>>

----------------------------------------------------------------------------
(* Bounds of the model *)

MaxCount == 1
MaxTime == 2
MaxHalfLife == 2
MaxCalls == 1

Keys == {"a", "b"}

----------------------------------------------------------------------------
(* Doubles *)

Dbl(k, c, n, d) == [k |-> k, c |-> c, n |-> n, d |-> d]
NaN == Dbl("nan", 0, 0, 1)
Inf(s) == Dbl("inf", s, 0, 1)
Fin(c) == Dbl("num", c, 0, 1)
Tiny == Dbl("tiny", 1, 0, 1)
NegZero == Dbl("negzero", 0, 0, 1)
Huge(s) == Dbl("huge", s, 0, 1)
NonNumeric == Dbl("str", 0, 0, 1)

Abs(i) == IF i < 0 THEN -i ELSE i
Sgn(i) == IF i < 0 THEN -1 ELSE IF i > 0 THEN 1 ELSE 0

RECURSIVE GCD(_, _)
GCD(x, y) == IF y = 0 THEN x ELSE GCD(y, x % y)

\* the double nearest to ln(2) * n / d, d > 0
Ln2Times(n, d) == Dbl("ln2", 1, n \div GCD(Abs(n), d), d \div GCD(Abs(n), d))

IsNaN(x) == x.k = "nan"
IsZero(x) == x.k = "negzero" \/ (x.k = "num" /\ x.c = 0)

\* the sign of a double that is not NaN: -1, 0 or 1
SignOf(x) ==
    IF x.k = "ln2" THEN Sgn(x.n) ELSE IF x.k = "tiny" THEN 1 ELSE Sgn(x.c)

\* the sign bit of a double that is not NaN, as a factor: -1 or 1
SignBit(x) ==
    IF x.k = "negzero" THEN -1 ELSE IF IsZero(x) THEN 1 ELSE SignOf(x)

\* the zero of sign s
Zero(s) == IF s = 1 THEN Fin(0) ELSE NegZero

\* -x
FNeg(x) ==
    IF IsZero(x) THEN Zero(-SignBit(x))
    ELSE IF x.k = "ln2" THEN Dbl("ln2", 1, -x.n, x.d)
    ELSE IF x.k \in {"inf", "num", "huge"} THEN Dbl(x.k, -x.c, x.n, x.d)
    ELSE x

\* x < 0 as the FPU decides it: false when x is NaN
IsNegative(x) ==
    \/ x.k = "inf" /\ x.c = -1
    \/ x.k = "huge" /\ x.c = -1
    \/ x.k = "num" /\ x.c < 0
    \/ x.k = "ln2" /\ x.n < 0

\* x >= 0 as the FPU decides it: false when x is NaN
IsNonNegative(x) == ~IsNaN(x) /\ ~IsNegative(x)

\* x == y as the FPU decides it: false when either is NaN
FEq(x, y) == ~IsNaN(x) /\ ~IsNaN(y) /\ (x = y \/ (IsZero(x) /\ IsZero(y)))

\* x <= y as the FPU decides it, for x and y that are NaN, infinite, huge,
\* integers, or "num" with the same c (two scores of one access count)
FLeq(x, y) ==
    IF IsNaN(x) \/ IsNaN(y) THEN FALSE
    ELSE IF x.k = "inf" THEN x.c = -1 \/ x = y
    ELSE IF y.k = "inf" THEN y.c = 1
    ELSE IF x.k = "huge" THEN x.c = -1 \/ x = y
    ELSE IF y.k = "huge" THEN y.c = 1
    ELSE IF x.c # y.c THEN x.c < y.c
    ELSE IF x.c >= 0 THEN x.n * y.d <= y.n * x.d
    ELSE x.n * y.d >= y.n * x.d

----------------------------------------------------------------------------
(* compute_hotness_scores *)

\* item.second.cast<double>(): throws cast_error for a non-numeric object
CanCast(v) == v.k # "str"

\* M_LN2 / half_life
DecayConstant(hl) ==
    IF IsNaN(hl) THEN NaN
    ELSE IF hl.k = "inf" THEN Zero(hl.c)
    ELSE IF hl.k = "tiny" THEN Inf(1)
    ELSE IF IsZero(hl) THEN Inf(SignBit(hl))
    ELSE Ln2Times(Sgn(hl.c), Abs(hl.c))

\* last_time defaulting to 0.0 instead of current_time
LastTimeZeroDefault(lat, k, cur) == IF k \in DOMAIN lat THEN lat[k] ELSE Fin(0)

\* last_time: the key's timestamp when last_access_times contains the key,
\* current_time otherwise
LastTime(lat, k, cur) == IF k \in DOMAIN lat THEN lat[k] ELSE cur

\* x - y, for x and y that are NaN, infinite, huge, integers or zeros: the
\* difference of two huge doubles of opposite signs overflows, x - x is +0.0,
\* and only -0.0 - +0.0 is -0.0
FSub(x, y) ==
    IF IsNaN(x) \/ IsNaN(y) THEN NaN
    ELSE IF x.k = "inf" /\ y.k = "inf"
         THEN IF x.c = y.c THEN NaN ELSE Inf(x.c)
    ELSE IF x.k = "inf" THEN x
    ELSE IF y.k = "inf" THEN Inf(-y.c)
    ELSE IF x.k = "huge" /\ y.k = "huge"
         THEN IF x.c = y.c THEN Fin(0) ELSE Inf(x.c)
    ELSE IF x.k = "huge" THEN x
    ELSE IF y.k = "huge" THEN Huge(-y.c)
    ELSE IF x.c - y.c # 0 THEN Fin(x.c - y.c)
    ELSE IF x.k = "negzero" /\ y.k = "num" THEN NegZero
    ELSE Fin(0)

\* the operands of the subtraction swapped
TimeDeltaSwapped(cur, last) == FSub(last, cur)

\* current_time - last_time
TimeDelta(cur, last) == FSub(cur, last)

\* the clamp left out
ClampDtMissing(dt) == dt

\* if (dt < 0) dt = 0
ClampDt(dt) == IF IsNegative(dt) THEN Fin(0) ELSE dt

\* decay_constant * dt, for a decay constant that DecayConstant gives and a
\* dt that is NaN, infinite, huge or an integer: ln(2) / h times a huge dt is
\* finite and of magnitude above 1e307
DecayTimesDt(decay, dt) ==
    IF IsNaN(decay) \/ IsNaN(dt) THEN NaN
    ELSE IF decay.k = "inf"
         THEN IF IsZero(dt) THEN NaN ELSE Inf(decay.c * SignOf(dt))
    ELSE IF IsZero(decay)
         THEN IF dt.k = "inf" THEN NaN
              ELSE Zero(SignBit(decay) * SignBit(dt))
    ELSE IF dt.k = "inf" THEN Inf(Sgn(decay.n) * dt.c)
    ELSE IF IsZero(dt) THEN Zero(SignBit(decay) * SignBit(dt))
    ELSE IF dt.k = "huge" THEN Huge(Sgn(decay.n) * dt.c)
    ELSE Ln2Times(decay.n * dt.c, decay.d)

\* -decay_constant * dt without the negation
NegDecayTimesDtNotNegated(decay, dt) == DecayTimesDt(decay, dt)

\* -decay_constant * dt
NegDecayTimesDt(decay, dt) == DecayTimesDt(FNeg(decay), dt)

\* std::exp(x): exp(ln(2) * n / d) is 2^(n/d); exp of a huge x overflows to
\* infinity and exp of a huge negative x underflows to +0.0
Exp(x) ==
    IF IsNaN(x) THEN NaN
    ELSE IF x.k \in {"inf", "huge"} THEN IF x.c = 1 THEN Inf(1) ELSE Fin(0)
    ELSE IF IsZero(x) THEN Fin(1)
    ELSE Dbl("num", 1, x.n, x.d)

\* x * y, for an integer, infinite or NaN x and a y that Exp gives
FMul(x, y) ==
    IF IsNaN(x) \/ IsNaN(y) THEN NaN
    ELSE IF x.k = "inf"
         THEN IF IsZero(y) THEN NaN ELSE Inf(x.c * SignOf(y))
    ELSE IF y.k = "inf"
         THEN IF IsZero(x) THEN NaN ELSE Inf(Sgn(x.c) * y.c)
    ELSE IF IsZero(x) \/ IsZero(y) THEN Zero(SignBit(x) * SignBit(y))
    ELSE Dbl("num", x.c * y.c, y.n, y.d)

\* the product with the sign of the exponent put on the count
TimesFactorSignSlip(count, factor) == FMul(FNeg(count), factor)

\* count * std::exp(...)
TimesFactor(count, factor) == FMul(count, factor)

\* the body of the loop, for one key
Hotness(count, last, cur, hl) ==
    TimesFactor(count,
                Exp(NegDecayTimesDt(DecayConstant(hl),
                                    ClampDt(TimeDelta(cur, last)))))

\* a loop that skips the keys that have no timestamp
ScoredKeysWithTimestamp(ac, lat) == DOMAIN ac \cap DOMAIN lat

\* the keys the loop visits
ScoredKeys(ac, lat) == DOMAIN ac

\* the casts the loop makes succeed
CastsSucceed(ac, lat) ==
    \A k \in ScoredKeys(ac, lat) :
        /\ CanCast(ac[k])
        /\ k \in DOMAIN lat => CanCast(lat[k])

NoScores == [k \in {} |-> NaN]
NoCall == [status |-> "none", scores |-> NoScores]

compute_hotness_scores(ac, lat, cur, hl) ==
    IF CastsSucceed(ac, lat)
    THEN [status |-> "ok",
          scores |-> [k \in ScoredKeys(ac, lat) |->
                         Hotness(ac[k], LastTime(lat, k, cur), cur, hl)]]
    ELSE [status |-> "cast_error", scores |-> NoScores]

\* bound, in units of 2^-53, on the relative rounding error of a score: none
\* when the exponent is zero (exp(-0) is 1 and count * 1 is count); otherwise
\* M_LN2, the division and the product each round once (3 units on the
\* argument, scaled by its size, below ceil(|n/d|)), std::exp is within one
\* ulp (2 units) and the last product rounds once
RelErrUnits(s) ==
    IF s.k # "num" \/ s.n = 0 THEN 0
    ELSE 3 * ((Abs(s.n) + s.d - 1) \div s.d) + 3

----------------------------------------------------------------------------
(* The arguments a caller can pass *)

CountValues ==
    {Fin(c) : c \in -MaxCount..MaxCount}
        \cup {NegZero, NaN, Inf(1), NonNumeric}
TimeValues ==
    {Fin(t) : t \in 0..MaxTime}
        \cup {NegZero, Huge(1), Huge(-1), NaN, Inf(1), Inf(-1), NonNumeric}
TimeArgs == TimeValues \ {NonNumeric}
HalfLives ==
    {Fin(h) : h \in -1..MaxHalfLife} \cup {NegZero, Tiny, NaN, Inf(1), Inf(-1)}

Dicts(ks, vals) == UNION {[S -> vals] : S \in SUBSET ks}

NoPrev == [status |-> "none", scores |-> NoScores, current_time |-> NaN]

Threads == {"t1", "t2", "t3"}
Tensors == {"w"}
Devices == {0, 1}
NoArgs == [src |-> "none", dst_device |-> 0]
NoTensor == [kind |-> "none", data |-> "none", device |-> 0]

TransferIdle ==
    /\ pc = [t \in Threads |-> "python"]
    /\ args = [t \in Threads |-> NoArgs]
    /\ holds_gil = [t \in Threads |-> FALSE]
    /\ attempts = [t \in Threads |-> 0]
    /\ copy_result = [t \in Threads |-> NoTensor]
    /\ delivered = [t \in Threads |-> NoTensor]
    /\ calls = [t \in Threads |-> 0]

----------------------------------------------------------------------------
(* One call of compute_hotness_scores *)

Init ==
    /\ access_counts \in Dicts(Keys, CountValues)
    /\ last_access_times \in Dicts(Keys, TimeValues)
    /\ current_time \in TimeArgs
    /\ half_life \in HalfLives
    /\ result = NoCall
    /\ prev = NoPrev
    /\ TransferIdle

Score ==
    /\ result.status = "none"
    /\ result' = compute_hotness_scores(access_counts, last_access_times,
                                        current_time, half_life)
    /\ UNCHANGED <<access_counts, last_access_times, current_time, half_life,
                   prev>>
    /\ UNCHANGED transfer_vars

Next == Score

Spec == Init /\ [][Next]_vars

----------------------------------------------------------------------------
(* Two calls that differ in current_time only *)

InitDecay ==
    /\ access_counts \in [{"a"} -> CountValues \ {NonNumeric}]
    /\ last_access_times \in Dicts({"a"}, TimeArgs)
    /\ current_time \in TimeArgs
    /\ half_life \in HalfLives
    /\ result = NoCall
    /\ prev = NoPrev
    /\ TransferIdle

CallAgain(t) ==
    /\ result.status # "none"
    /\ prev.status = "none"
    /\ prev' = [status |-> result.status, scores |-> result.scores,
                current_time |-> current_time]
    /\ current_time' = t
    /\ result' = NoCall
    /\ UNCHANGED <<access_counts, last_access_times, half_life>>
    /\ UNCHANGED transfer_vars

NextDecay ==
    \/ Score
    \/ \E t \in TimeArgs : CallAgain(t)

SpecDecay == InitDecay /\ [][NextDecay]_vars

----------------------------------------------------------------------------
(* fast_p2p_transfer, called by Python threads *)

NoDicts ==
    /\ access_counts = NoScores
    /\ last_access_times = NoScores
    /\ current_time = Fin(0)
    /\ half_life = Fin(1)
    /\ result = NoCall
    /\ prev = NoPrev

InitTransfer == NoDicts /\ TransferIdle

GilFree == \A u \in Threads : ~holds_gil[u]

\* what fast_p2p_transfer_cuda(src, dst_device) can do: return the copy of
\* src on dst_device, or throw the device runtime's error
CudaOutcomes(a) ==
    {[kind |-> "tensor", data |-> a.src, device |-> a.dst_device],
     [kind |-> "error", data |-> a.src, device |-> a.dst_device]}

\* the interpreter gives the GIL to a thread that waits for it
AcquireGIL(t) ==
    /\ pc[t] = "python"
    /\ ~holds_gil[t]
    /\ GilFree
    /\ holds_gil' = [holds_gil EXCEPT ![t] = TRUE]
    /\ UNCHANGED <<pc, args, attempts, copy_result, delivered, calls>>
    /\ UNCHANGED scorer_vars

\* the interpreter switches away from a thread that runs Python code
YieldGIL(t) ==
    /\ pc[t] = "python"
    /\ holds_gil[t]
    /\ holds_gil' = [holds_gil EXCEPT ![t] = FALSE]
    /\ UNCHANGED <<pc, args, attempts, copy_result, delivered, calls>>
    /\ UNCHANGED scorer_vars

\* Python code calls the bound function: only a thread holding the GIL can
Call(t, src, dst) ==
    /\ pc[t] = "python"
    /\ holds_gil[t]
    /\ calls[t] < MaxCalls
    /\ pc' = [pc EXCEPT ![t] = "entered"]
    /\ args' = [args EXCEPT ![t] = [src |-> src, dst_device |-> dst]]
    /\ attempts' = [attempts EXCEPT ![t] = 0]
    /\ calls' = [calls EXCEPT ![t] = @ + 1]
    /\ UNCHANGED <<holds_gil, copy_result, delivered>>
    /\ UNCHANGED scorer_vars

\* the wrapper without its gil_scoped_release
ReleaseGILMissing(t) ==
    /\ pc[t] = "entered"
    /\ pc' = [pc EXCEPT ![t] = "released"]
    /\ UNCHANGED <<args, holds_gil, attempts, copy_result, delivered, calls>>
    /\ UNCHANGED scorer_vars

\* pybind11::gil_scoped_release no_gil;
ReleaseGIL(t) ==
    /\ pc[t] = "entered"
    /\ pc' = [pc EXCEPT ![t] = "released"]
    /\ holds_gil' = [holds_gil EXCEPT ![t] = FALSE]
    /\ UNCHANGED <<args, attempts, copy_result, delivered, calls>>
    /\ UNCHANGED scorer_vars

\* fast_p2p_transfer_cuda(src, dst_device) is called
StartCopy(t) ==
    /\ pc[t] = "released"
    /\ pc' = [pc EXCEPT ![t] = "copying"]
    /\ attempts' = [attempts EXCEPT ![t] = @ + 1]
    /\ UNCHANGED <<args, holds_gil, copy_result, delivered, calls>>
    /\ UNCHANGED scorer_vars

\* a wrapper that calls the device copy again when it throws
FinishCopyRetrying(t, outcome) ==
    /\ pc[t] = "copying"
    /\ outcome \in CudaOutcomes(args[t])
    /\ pc' = [pc EXCEPT ![t] = IF outcome.kind = "error" /\ attempts[t] < 2
                                THEN "released" ELSE "unwinding"]
    /\ copy_result' = [copy_result EXCEPT ![t] = outcome]
    /\ UNCHANGED <<args, holds_gil, attempts, delivered, calls>>
    /\ UNCHANGED scorer_vars

\* ... and returns or throws: either way control leaves the scope of no_gil
FinishCopy(t, outcome) ==
    /\ pc[t] = "copying"
    /\ outcome \in CudaOutcomes(args[t])
    /\ pc' = [pc EXCEPT ![t] = "unwinding"]
    /\ copy_result' = [copy_result EXCEPT ![t] = outcome]
    /\ UNCHANGED <<args, holds_gil, attempts, delivered, calls>>
    /\ UNCHANGED scorer_vars

\* the GIL taken back by a statement after the call, which an exception skips
RestoreGILOnReturnOnly(t) ==
    /\ pc[t] = "unwinding"
    /\ copy_result[t].kind = "tensor" => GilFree
    /\ holds_gil' = [holds_gil EXCEPT ![t] = copy_result[t].kind = "tensor"]
    /\ pc' = [pc EXCEPT ![t] = "leaving"]
    /\ UNCHANGED <<args, attempts, copy_result, delivered, calls>>
    /\ UNCHANGED scorer_vars

\* ~gil_scoped_release(): waits for the GIL and takes it, on return and on
\* unwinding alike
RestoreGIL(t) ==
    /\ pc[t] = "unwinding"
    /\ GilFree
    /\ holds_gil' = [holds_gil EXCEPT ![t] = TRUE]
    /\ pc' = [pc EXCEPT ![t] = "leaving"]
    /\ UNCHANGED <<args, attempts, copy_result, delivered, calls>>
    /\ UNCHANGED scorer_vars

\* the caller receives the returned tensor or the propagating error
Return(t) ==
    /\ pc[t] = "leaving"
    /\ pc' = [pc EXCEPT ![t] = "python"]
    /\ delivered' = [delivered EXCEPT ![t] = copy_result[t]]
    /\ UNCHANGED <<args, holds_gil, attempts, copy_result, calls>>
    /\ UNCHANGED scorer_vars

NextTransfer ==
    \E t \in Threads :
        \/ AcquireGIL(t)
        \/ YieldGIL(t)
        \/ \E src \in Tensors, dst \in Devices : Call(t, src, dst)
        \/ ReleaseGIL(t)
        \/ StartCopy(t)
        \/ \E outcome \in CudaOutcomes(args[t]) : FinishCopy(t, outcome)
        \/ RestoreGIL(t)
        \/ Return(t)

SpecTransfer == InitTransfer /\ [][NextTransfer]_vars

----------------------------------------------------------------------------
(* Properties of compute_hotness_scores *)

Returned == result.status = "ok"

\* half_life > 0
PositiveHalfLife == ~IsNaN(half_life) /\ SignOf(half_life) = 1

\* half_life <= 0
NonPositiveHalfLife == ~IsNaN(half_life) /\ SignOf(half_life) <= 0

\* M_LN2 / half_life is a finite double: half_life is not NaN, not zero and
\* not so small that the division overflows
FiniteDecay ==
    \/ half_life.k = "inf"
    \/ half_life.k = "num" /\ half_life.c # 0

FiniteDbl(x) == x.k \in {"num", "negzero", "huge", "tiny"}

\* an integer-valued double of small magnitude
SmallDbl(x) == x.k \in {"num", "negzero"}

\* C1: the mapping a call returns has exactly the keys of access_counts,
\* whatever keys last_access_times has, and so the same size.
C1_ResultKeysAreAccessCountKeys ==
    Returned =>
        /\ DOMAIN result.scores = DOMAIN access_counts
        /\ Cardinality(DOMAIN result.scores) = Cardinality(DOMAIN access_counts)

\* a call returned with a timestamp for one key that has no count and a
\* count for another key that has no timestamp
C1_Witness ==
    /\ Returned
    /\ DOMAIN access_counts = {"a"}
    /\ DOMAIN last_access_times = {"b"}
    /\ DOMAIN result.scores = {"a"}

\* C2: a call with half_life <= 0 fails with InvalidArgument and returns no
\* mapping.
C2_NonPositiveHalfLifeIsRejected ==
    (result.status # "none" /\ NonPositiveHalfLife) =>
        (result.status = "invalid_argument" /\ result.scores = NoScores)

\* C4 as stated: with a positive half_life, a key without a timestamp scores
\* its access count, for any current_time (read for arguments that are
\* numbers: none of them NaN).
C4_AsStated ==
    (Returned /\ PositiveHalfLife /\ ~IsNaN(current_time)) =>
        \A k \in DOMAIN access_counts \ DOMAIN last_access_times :
            ~IsNaN(access_counts[k]) =>
                FEq(result.scores[k], access_counts[k])

\* C4: with a positive half_life for which M_LN2 / half_life is finite, a
\* finite current_time and a count that is not NaN, a key without a timestamp
\* scores exactly its access count.
C4_MissingTimestampScoresCount ==
    (Returned /\ PositiveHalfLife /\ FiniteDecay /\ FiniteDbl(current_time)) =>
        \A k \in DOMAIN access_counts \ DOMAIN last_access_times :
            ~IsNaN(access_counts[k]) =>
                FEq(result.scores[k], access_counts[k])

\* the key a has a count and no timestamp, the key b has a timestamp that
\* decays it, and a scores its count
C4_Witness ==
    /\ Returned
    /\ half_life = Fin(1)
    /\ current_time = Fin(2)
    /\ "a" \in DOMAIN access_counts \ DOMAIN last_access_times
    /\ access_counts["a"] = Fin(1)
    /\ result.scores["a"] = Fin(1)
    /\ "b" \in DOMAIN last_access_times /\ last_access_times["b"] = Fin(0)

\* last_access_times[k] >= current_time, as the FPU decides it
NotBeforeLastAccess(k) ==
    /\ k \in DOMAIN access_counts \cap DOMAIN last_access_times
    /\ FLeq(current_time, last_access_times[k])

\* C5 as stated: a key whose timestamp is equal to or later than current_time
\* scores exactly its access count (read for a half_life > 0 and a count that
\* is not NaN).
C5_AsStated ==
    (Returned /\ PositiveHalfLife) =>
        \A k \in DOMAIN access_counts :
            (NotBeforeLastAccess(k) /\ ~IsNaN(access_counts[k])) =>
                FEq(result.scores[k], access_counts[k])

\* C5: when current_time is finite, half_life > 0 and M_LN2 / half_life is
\* finite, a key whose timestamp is equal to or later than current_time and
\* whose count is not NaN scores exactly its access count.
C5_ZeroOrNegativeDeltaScoresCount ==
    (Returned /\ PositiveHalfLife /\ FiniteDecay /\ FiniteDbl(current_time)) =>
        \A k \in DOMAIN access_counts :
            (NotBeforeLastAccess(k) /\ ~IsNaN(access_counts[k])) =>
                FEq(result.scores[k], access_counts[k])

\* the timestamp of a is later than current_time (a negative delta), that of
\* b equals it, and both score their counts
C5_Witness ==
    /\ Returned
    /\ half_life = Fin(1)
    /\ current_time = Fin(1)
    /\ DOMAIN access_counts = {"a", "b"}
    /\ DOMAIN last_access_times = {"a", "b"}
    /\ last_access_times["a"] = Fin(2)
    /\ last_access_times["b"] = Fin(1)
    /\ access_counts["a"] = Fin(1) /\ result.scores["a"] = Fin(1)
    /\ access_counts["b"] = Fin(-1) /\ result.scores["b"] = Fin(-1)

\* current_time = t0 + half_life, exactly
OneHalfLifeLater(t0) ==
    /\ SmallDbl(t0)
    /\ \/ SmallDbl(half_life) /\ SmallDbl(current_time)
          /\ current_time.c = t0.c + half_life.c
       \/ half_life = Inf(1) /\ current_time = Inf(1)

\* s is C / 2 within 1e-9 relative error: 1e-9 is 9007199 units of 2^-53
IsAboutHalf(s, C) ==
    IF C.k = "inf" THEN s = C
    ELSE IF IsZero(C) THEN IsZero(s)
    ELSE /\ s.k = "num" /\ C.k = "num"
         /\ s.c = C.c /\ s.n = -1 /\ s.d = 1
         /\ RelErrUnits(s) <= 9007199

\* C6 as stated: with half_life > 0 and current_time = t0 + half_life, a key
\* last accessed at t0 scores about half its count (read for a count that is
\* not NaN).
C6_AsStated ==
    (Returned /\ PositiveHalfLife) =>
        \A k \in DOMAIN access_counts \cap DOMAIN last_access_times :
            (OneHalfLifeLater(last_access_times[k])
                 /\ ~IsNaN(access_counts[k])) =>
                IsAboutHalf(result.scores[k], access_counts[k])

\* C6: with a finite half_life > 0 for which M_LN2 / half_life is finite, a
\* finite count and current_time = t0 + half_life, a key last accessed at t0
\* scores half its count within 1e-9 relative error.
C6_HalfLifeHalvesScore ==
    (Returned /\ PositiveHalfLife /\ FiniteDecay /\ FiniteDbl(half_life)) =>
        \A k \in DOMAIN access_counts \cap DOMAIN last_access_times :
            (OneHalfLifeLater(last_access_times[k])
                 /\ FiniteDbl(access_counts[k])) =>
                IsAboutHalf(result.scores[k], access_counts[k])

\* the example of the specification, with its numbers scaled down to the
\* bounds: a last accessed one half-life ago scores half its count, b without
\* a timestamp scores its count
C6_Witness ==
    /\ Returned
    /\ half_life = Fin(2)
    /\ current_time = Fin(2)
    /\ DOMAIN access_counts = {"a", "b"}
    /\ DOMAIN last_access_times = {"a"}
    /\ last_access_times["a"] = Fin(0)
    /\ access_counts["a"] = Fin(1)
    /\ access_counts["b"] = Fin(1)
    /\ result.scores["a"] = Dbl("num", 1, -1, 1)
    /\ result.scores["b"] = Fin(1)

\* C9 as stated: with half_life > 0, a key whose count is >= 0 has a score
\* >= 0, whatever the timestamps and current_time are (read for arguments
\* that are numbers: none of them NaN).
C9_AsStated ==
    (Returned /\ PositiveHalfLife /\ ~IsNaN(current_time)) =>
        \A k \in DOMAIN access_counts :
            (IsNonNegative(access_counts[k])
                 /\ ~IsNaN(LastTime(last_access_times, k, current_time))) =>
                IsNonNegative(result.scores[k])

\* C9: with half_life > 0, a key whose count is >= 0 never has a negative
\* score: the score is >= 0 or NaN, and it is >= 0 when the count,
\* current_time, the timestamp and half_life are finite and M_LN2 / half_life
\* is finite.
C9_ScoreNeverNegative ==
    (Returned /\ PositiveHalfLife) =>
        \A k \in DOMAIN access_counts :
            IsNonNegative(access_counts[k]) =>
                /\ ~IsNegative(result.scores[k])
                /\ (/\ FiniteDecay
                    /\ FiniteDbl(half_life)
                    /\ FiniteDbl(access_counts[k])
                    /\ FiniteDbl(current_time)
                    /\ FiniteDbl(LastTime(last_access_times, k, current_time)))
                   => IsNonNegative(result.scores[k])

\* a positive count decayed over two half-lives has a positive score
C9_Witness ==
    /\ Returned
    /\ half_life = Fin(1)
    /\ current_time = Fin(2)
    /\ "a" \in DOMAIN access_counts \cap DOMAIN last_access_times
    /\ last_access_times["a"] = Fin(0)
    /\ access_counts["a"] = Fin(1)
    /\ result.scores["a"] = Dbl("num", 1, -2, 1)

----------------------------------------------------------------------------
(* Properties of two calls of compute_hotness_scores *)

\* two calls returned that differ in current_time only, with finite
\* arguments, and dt did not decrease from the first to the second
LaterCall(k) ==
    /\ prev.status = "ok" /\ Returned
    /\ PositiveHalfLife /\ FiniteDecay
    /\ k \in DOMAIN access_counts \cap DOMAIN last_access_times
    /\ FiniteDbl(access_counts[k])
    /\ FiniteDbl(last_access_times[k])
    /\ FiniteDbl(prev.current_time) /\ FiniteDbl(current_time)
    /\ FLeq(FSub(prev.current_time, last_access_times[k]),
            FSub(current_time, last_access_times[k]))

\* C7 as stated: for a fixed count and a fixed half_life > 0, the score does
\* not increase when dt = current_time - last_access_time increases (read for
\* finite arguments).
C7_AsStated ==
    \A k \in Keys :
        LaterCall(k) => FLeq(result.scores[k], prev.scores[k])

\* C7: for a fixed finite count >= 0 and a fixed finite half_life > 0 with a
\* finite M_LN2 / half_life, and finite times, the score does not increase
\* when dt = current_time - last_access_time increases, a dt that overflows
\* to infinity included.
C7_ScoreNonIncreasingInDt ==
    \A k \in Keys :
        (LaterCall(k) /\ FiniteDbl(half_life) /\ access_counts[k].c >= 0) =>
            FLeq(result.scores[k], prev.scores[k])

\* a count scored one half-life and then two half-lives after its access
C7_Witness ==
    /\ prev.status = "ok" /\ Returned
    /\ half_life = Fin(1)
    /\ access_counts = [k \in {"a"} |-> Fin(1)]
    /\ last_access_times = [k \in {"a"} |-> Fin(0)]
    /\ prev.current_time = Fin(1) /\ current_time = Fin(2)
    /\ prev.scores["a"] = Dbl("num", 1, -1, 1)
    /\ result.scores["a"] = Dbl("num", 1, -2, 1)

----------------------------------------------------------------------------
(* Properties of fast_p2p_transfer *)

InTransfer(t) == pc[t] # "python"

\* C3: a thread is without the GIL from before its device copy starts until
\* the copy has ended: the copy never runs with the caller holding the GIL,
\* which is then free for another thread or held by another thread.
C3_GilReleasedDuringCopy ==
    \A t \in Threads :
        pc[t] \in {"released", "copying"} => ~holds_gil[t]

\* one thread is in the device copy while another holds the GIL and has
\* completed a call of its own
C3_Witness ==
    \E t, u \in Threads :
        /\ pc[t] = "copying"
        /\ pc[u] = "python" /\ holds_gil[u] /\ calls[u] = 1

\* C8: a thread back in its caller after a call made exactly one device copy
\* in that call and received what that copy gave, the tensor of its arguments
\* or the device error, unchanged.
C8_OutcomePropagatesOnce ==
    \A t \in Threads :
        (pc[t] = "python" /\ calls[t] > 0) =>
            /\ attempts[t] = 1
            /\ delivered[t] = copy_result[t]
            /\ delivered[t] \in CudaOutcomes(args[t])

\* one caller received the device error and another the tensor
C8_Witness ==
    \E t, u \in Threads :
        /\ pc[t] = "python" /\ calls[t] > 0 /\ delivered[t].kind = "error"
        /\ pc[u] = "python" /\ calls[u] > 0 /\ delivered[u].kind = "tensor"

\* C10: a thread leaving fast_p2p_transfer holds the GIL, by return and by
\* error alike; no two threads hold the GIL at once; and a thread inside
\* fast_p2p_transfer is without the GIL only from the release at entry to
\* the end of the device copy, where it waits to take the GIL back.
C10_GilHeldOnExitAndExclusive ==
    /\ \A t \in Threads : pc[t] = "leaving" => holds_gil[t]
    /\ \A t, u \in Threads : (holds_gil[t] /\ holds_gil[u]) => t = u
    /\ \A t \in Threads :
          (InTransfer(t) /\ ~holds_gil[t]) =>
              pc[t] \in {"released", "copying", "unwinding"}

\* a thread leaves with a device error, holding the GIL, while the copies of
\* the other two threads have ended and they wait for the GIL
C10_Witness ==
    \E t \in Threads :
        /\ pc[t] = "leaving" /\ holds_gil[t] /\ copy_result[t].kind = "error"
        /\ \A u \in Threads \ {t} : pc[u] = "unwinding"

====
